---- MODULE Spec2Model ----
(***************************************************************************)
(* sdiffe: symbolic differentiation of expression trees (src/main.cpp).    *)
(*                                                                         *)
(* Expressions are records tagged by the class that implements them        *)
(* (constant, variable, add, sub, mul, pow, div, ln).  The static create   *)
(* factories and the virtual diff methods are operators; a caller that     *)
(* builds trees bottom-up through the factories is a stack machine, and    *)
(* main() is one more operation of it.                                     *)
(*                                                                         *)
(* Doubles are modelled bit for bit on the multiples of 2^-52, with the    *)
(* rounding of the machine's addition and subtraction.                     *)
(***************************************************************************)
EXTENDS Integers, Sequences, FiniteSets, TLC

VARIABLES stack, last

vars == <<stack, last>>

-----------------------------------------------------------------------------
(* Bounds of the exploration *)

\* nodes a caller-built tree may have
MaxNodes == 5
\* trees the caller holds at once
MaxStack == 3
\* nodes of a tree the caller still differentiates (derivatives grow)
MaxDiffNodes == 7

-----------------------------------------------------------------------------
(* Doubles.  A double is the record of its sign s and of its magnitude     *)
(* ip + fh / 2^26 + fl / 2^52: the exact binary value, with the 52 bits    *)
(* after the binary point in two limbs of 26 bits.  These are the doubles  *)
(* that are whole multiples of 2^-52: every literal of the program and     *)
(* every sum or difference of two of them is one.  Zero has the sign 1.    *)
(* Magnitudes stay below 2^30.                                             *)

\* 2^26
Limb == 67108864
\* 2^25: one half, as a high limb
HalfLimb == 33554432

Dbl(s, ip, fh, fl) == [s |-> s, ip |-> ip, fh |-> fh, fl |-> fl]

Abs(i) == IF i < 0 THEN -i ELSE i

\* the double of a whole number
FromInt(n) == Dbl(IF n < 0 THEN -1 ELSE 1, Abs(n), 0, 0)

Zero == FromInt(0)
One == FromInt(1)
Two == FromInt(2)
\* constant::E, the double 2.718281828459045
E == Dbl(1, 2, 48203077, 36220626)
\* the double E + 5e-11: inside the tolerance of is_const_e
ENear == Dbl(1, 2, 48203077, 36445806)
\* the double E + 2e-10: outside it
EFar == Dbl(1, 2, 48203077, 37121346)

RECURSIVE BitLen(_)
BitLen(i) == IF i = 0 THEN 0 ELSE 1 + BitLen(i \div 2)

RECURSIVE Pow2(_)
Pow2(i) == IF i = 0 THEN 1 ELSE 2 * Pow2(i - 1)

\* a magnitude with its limbs brought back into 0 .. Limb - 1
Carry(ip, fh, fl) ==
  LET h == fh + (fl \div Limb)
  IN [ip |-> ip + (h \div Limb), fh |-> h % Limb, fl |-> fl % Limb]

MagLess(a, b) ==
  \/ a.ip < b.ip
  \/ a.ip = b.ip /\ a.fh < b.fh
  \/ a.ip = b.ip /\ a.fh = b.fh /\ a.fl < b.fl

AddMag(a, b) == Carry(a.ip + b.ip, a.fh + b.fh, a.fl + b.fl)
\* for a not less than b
SubMag(a, b) == Carry(a.ip - b.ip, a.fh - b.fh, a.fl - b.fl)

\* The exact magnitude m rounded to the nearest double, ties to the even
\* significand.  A double has 53 significant bits, so a magnitude of 2 or
\* more loses the c lowest of its 52 fraction bits.
Round53(m) ==
  LET c == BitLen(m.ip) - 1 IN
  IF c <= 0 THEN m
  ELSE IF c <= 26 THEN
    LET p == Pow2(c)
        q == m.fl \div p
        r == m.fl % p
        odd == IF c = 26 THEN m.fh % 2 = 1 ELSE q % 2 = 1
        up == 2 * r > p \/ (2 * r = p /\ odd)
    IN Carry(m.ip, m.fh, (IF up THEN q + 1 ELSE q) * p)
  ELSE
    LET p == Pow2(c - 26)
        q == m.fh \div p
        r == m.fh % p
        odd == q % 2 = 1
        up == \/ 2 * r > p
              \/ 2 * r = p /\ m.fl > 0
              \/ 2 * r = p /\ m.fl = 0 /\ odd
    IN Carry(m.ip, (IF up THEN q + 1 ELSE q) * p, 0)

Signed(s, m) ==
  IF m.ip = 0 /\ m.fh = 0 /\ m.fl = 0 THEN Zero ELSE Dbl(s, m.ip, m.fh, m.fl)

\* a + b of two doubles
vadd(a, b) ==
  IF a.s = b.s THEN Signed(a.s, Round53(AddMag(a, b)))
  ELSE IF MagLess(a, b) THEN Signed(b.s, Round53(SubMag(b, a)))
  ELSE Signed(a.s, Round53(SubMag(a, b)))

\* a - b of two doubles
vsub(a, b) == vadd(a, [b EXCEPT !.s = -b.s])

\* the tolerance 0.0000000001 of is_const_e in units of 2^-52, rounded up:
\* a multiple k * 2^-52 is below the tolerance exactly when k is below this
Tolerance == 450360

\* fabs(val - E) < 0.0000000001
is_const_e(v) ==
  LET d == vsub(v, E)
  IN d.ip = 0 /\ d.fh = 0 /\ d.fl < Tolerance

-----------------------------------------------------------------------------
(* Expression nodes *)

Const(v) == [k |-> "constant", val |-> v]
Var(nm) == [k |-> "variable", name |-> nm]
Bin(kind, l, r) == [k |-> kind, lhs |-> l, rhs |-> r]
Ln(v) == [k |-> "ln", value |-> v]

\* no expression: the slot of a result that was never produced
NoExpr == [k |-> "none"]

\* what a base_expr_s that was never initialised points to: no object; a
\* call through it ends the process, holding or passing it on does not
Uninit == [k |-> "uninit"]

\* in the place of an expression: the process ended while evaluating it
Halted == [k |-> "halted"]

\* an expression that the program text does not determine
Unspecified == [k |-> "unspecified"]

BinKinds == {"add", "sub", "mul", "pow", "div"}

is_constant(e) == e.k = "constant"

\* is_constant() and value() == v
IsC(e, v) == e.k = "constant" /\ e.val = v

RECURSIVE Size(_)
Size(e) ==
  IF e.k \in BinKinds THEN 1 + Size(e.lhs) + Size(e.rhs)
  ELSE IF e.k = "ln" THEN 1 + Size(e.value)
  ELSE 1

RECURSIVE Subterms(_)
Subterms(e) ==
  IF e.k \in BinKinds THEN {e} \cup Subterms(e.lhs) \cup Subterms(e.rhs)
  ELSE IF e.k = "ln" THEN {e} \cup Subterms(e.value)
  ELSE {e}

-----------------------------------------------------------------------------
(* Outcomes of a call: a returned expression, a thrown exception, or the  *)
(* abnormal end of the process.  ub records that the evaluation reached a *)
(* path with no defined result.                                           *)

Ok(e) == [st |-> "ok", e |-> e, ub |-> FALSE]
Throw(what) == [st |-> what, e |-> NoExpr, ub |-> FALSE]

\* the process ended: only undefined behaviour leads here
Crashed == [st |-> "crash", e |-> NoExpr, ub |-> TRUE]

DivisionByZero == "DivisionByZero"
LogOfZero == "LogOfZero"

-----------------------------------------------------------------------------
(* The create factories.  They call is_constant() on their operands in    *)
(* the order of the code; an operand that is Uninit ends the process at   *)
(* the first such call and is handed on untouched before it.              *)

\* add::create
add_create(lhs, rhs) ==
  IF lhs = Halted \/ rhs = Halted THEN Halted
  ELSE IF lhs = Uninit THEN Halted
  ELSE IF IsC(lhs, Zero) THEN rhs
  ELSE IF rhs = Uninit THEN Halted
  ELSE IF IsC(rhs, Zero) THEN lhs
  ELSE Bin("add", lhs, rhs)

\* sub::create
sub_create(lhs, rhs) ==
  IF lhs = Halted \/ rhs = Halted THEN Halted
  ELSE IF rhs = Uninit THEN Halted
  ELSE IF IsC(rhs, Zero) THEN lhs
  ELSE Bin("sub", lhs, rhs)

\* mul::create without the test of the right operand for 0
mul_create_no_rhs_zero(lhs, rhs) ==
  IF lhs = Halted \/ rhs = Halted THEN Halted
  ELSE IF lhs = Uninit THEN Halted
  ELSE IF IsC(lhs, Zero) THEN Const(Zero)
  ELSE IF IsC(lhs, One) THEN rhs
  ELSE IF rhs = Uninit THEN Halted
  ELSE IF IsC(rhs, One) THEN lhs
  ELSE Bin("mul", lhs, rhs)

\* mul::create
mul_create(lhs, rhs) ==
  IF lhs = Halted \/ rhs = Halted THEN Halted
  ELSE IF lhs = Uninit THEN Halted
  ELSE IF IsC(lhs, Zero) THEN Const(Zero)
  ELSE IF IsC(lhs, One) THEN rhs
  ELSE IF rhs = Uninit THEN Halted
  ELSE IF IsC(rhs, Zero) THEN Const(Zero)
  ELSE IF IsC(rhs, One) THEN lhs
  ELSE Bin("mul", lhs, rhs)

\* pow::create
pow_create(lhs, rhs) ==
  IF lhs = Halted \/ rhs = Halted THEN Halted
  ELSE IF lhs = Uninit THEN Halted
  ELSE IF ~is_constant(lhs) /\ rhs = Uninit THEN Halted
  ELSE IF ~is_constant(lhs) /\ IsC(rhs, Zero) THEN Const(One)
  ELSE IF ~is_constant(lhs) /\ IsC(rhs, One) THEN lhs
  ELSE Bin("pow", lhs, rhs)

\* div::create that tests the dividend for 0 before the divisor
div_create_lhs_first(lhs, rhs) ==
  IF lhs = Halted \/ rhs = Halted THEN Crashed
  ELSE IF lhs = Uninit THEN Crashed
  ELSE IF IsC(lhs, Zero) THEN Ok(Const(Zero))
  ELSE IF rhs = Uninit THEN Crashed
  ELSE IF IsC(rhs, Zero) THEN Throw(DivisionByZero)
  ELSE IF IsC(rhs, One) THEN Ok(lhs)
  ELSE Ok(Bin("div", lhs, rhs))

\* div::create
div_create(lhs, rhs) ==
  IF lhs = Halted \/ rhs = Halted THEN Crashed
  ELSE IF rhs = Uninit THEN Crashed
  ELSE IF IsC(rhs, Zero) THEN Throw(DivisionByZero)
  ELSE IF IsC(rhs, One) THEN Ok(lhs)
  ELSE IF lhs = Uninit THEN Crashed
  ELSE IF IsC(lhs, Zero) THEN Ok(Const(Zero))
  ELSE Ok(Bin("div", lhs, rhs))

\* ln::create that compares with E exactly instead of is_const_e
ln_create_exact_e(value) ==
  IF value = Halted \/ value = Uninit THEN Crashed
  ELSE IF IsC(value, Zero) THEN Throw(LogOfZero)
  ELSE IF IsC(value, E) THEN Ok(Const(One))
  ELSE Ok(Ln(value))

\* ln::create without the test for 0
ln_create_no_zero_check(value) ==
  IF value = Halted \/ value = Uninit THEN Crashed
  ELSE IF is_constant(value) /\ is_const_e(value.val) THEN Ok(Const(One))
  ELSE Ok(Ln(value))

\* ln::create
ln_create(value) ==
  IF value = Halted \/ value = Uninit THEN Crashed
  ELSE IF IsC(value, Zero) THEN Throw(LogOfZero)
  ELSE IF is_constant(value) /\ is_const_e(value.val) THEN Ok(Const(One))
  ELSE Ok(Ln(value))

-----------------------------------------------------------------------------
(* The diff methods.  dv is the variable of differentiation.  ub is what  *)
(* the build makes of a call that flows off the end of its function       *)
(* without a return statement:                                            *)
(*   "crash"   the process ends, there or when the result that was never  *)
(*             made is destroyed (seen with g++ -O0);                     *)
(*   "elide"   the compiler takes the end of the function as unreachable  *)
(*             and drops the test that leads to it, so the code of the    *)
(*             last return statement runs (seen with g++ -O1, -O2, -Os);  *)
(*   "return"  the caller finds a handle to an object that lay there      *)
(*             before, the expression ub.e, and memory stays intact       *)
(*             (seen with g++ -O0);                                       *)
(*   "uninit"  the caller finds a base_expr_s that was never initialised  *)
(*             and goes on until it calls through it (seen with g++ -O0); *)
(*   "wild"    the caller finds handles to objects that lay there before, *)
(*             not the same at every missing return, and their reference  *)
(*             counts are written to memory the handles do not own: nodes *)
(*             are overwritten or freed while in use, and the expression  *)
(*             the call returns is not determined (seen with g++ -O0).    *)

\* the evaluation that produced o also went through undefined behaviour
Taint(o, flag) == [o EXCEPT !.ub = o.ub \/ flag]

\* the outcome of flowing off the end, for the builds that do not elide
FlowOff(ub) ==
  IF ub.mode = "return" THEN [st |-> "ok", e |-> ub.e, ub |-> TRUE]
  ELSE IF ub.mode = "wild" THEN [st |-> "ok", e |-> Unspecified, ub |-> TRUE]
  ELSE IF ub.mode = "uninit" THEN [st |-> "ok", e |-> Uninit, ub |-> TRUE]
  ELSE Crashed

\* return e, unless the process ended while e was evaluated
Return(e, flag) == IF e = Halted THEN Crashed ELSE Taint(Ok(e), flag)

RECURSIVE diff(_, _, _)

\* constant::diff
constant_diff(e, dv, ub) == Ok(Const(Zero))

\* variable::diff that returns 0 for another variable
variable_diff_zero(e, dv, ub) ==
  IF e.name = dv.name THEN Ok(Const(One)) ELSE Ok(Const(Zero))

\* variable::diff: no return statement when the names differ
variable_diff(e, dv, ub) ==
  IF e.name = dv.name THEN Ok(Const(One))
  ELSE IF ub.mode = "elide" THEN Taint(Ok(Const(One)), TRUE)
  ELSE FlowOff(ub)

\* add::diff.  lhs_d->is_constant() && rhs_d->is_constant() calls through
\* rhs_d only when lhs_d is a constant.
add_diff(e, dv, ub) ==
  LET lhs_d == diff(e.lhs, dv, ub) IN
  IF lhs_d.st # "ok" THEN lhs_d ELSE
  LET rhs_d == diff(e.rhs, dv, ub) IN
  IF rhs_d.st # "ok" THEN Taint(rhs_d, lhs_d.ub) ELSE
  IF lhs_d.e = Uninit \/ (is_constant(lhs_d.e) /\ rhs_d.e = Uninit)
  THEN Crashed ELSE
  Taint(Ok(IF is_constant(lhs_d.e) /\ is_constant(rhs_d.e)
           THEN Const(vadd(lhs_d.e.val, rhs_d.e.val))
           ELSE Bin("add", lhs_d.e, rhs_d.e)),
        lhs_d.ub \/ rhs_d.ub)

\* sub::diff that builds a sub node of the two derivatives
sub_diff_sub(e, dv, ub) ==
  LET lhs_d == diff(e.lhs, dv, ub) IN
  IF lhs_d.st # "ok" THEN lhs_d ELSE
  LET rhs_d == diff(e.rhs, dv, ub) IN
  IF rhs_d.st # "ok" THEN Taint(rhs_d, lhs_d.ub) ELSE
  IF lhs_d.e = Uninit \/ (is_constant(lhs_d.e) /\ rhs_d.e = Uninit)
  THEN Crashed ELSE
  Taint(Ok(IF is_constant(lhs_d.e) /\ is_constant(rhs_d.e)
           THEN Const(vsub(lhs_d.e.val, rhs_d.e.val))
           ELSE Bin("sub", lhs_d.e, rhs_d.e)),
        lhs_d.ub \/ rhs_d.ub)

\* sub::diff
sub_diff(e, dv, ub) ==
  LET lhs_d == diff(e.lhs, dv, ub) IN
  IF lhs_d.st # "ok" THEN lhs_d ELSE
  LET rhs_d == diff(e.rhs, dv, ub) IN
  IF rhs_d.st # "ok" THEN Taint(rhs_d, lhs_d.ub) ELSE
  IF lhs_d.e = Uninit \/ (is_constant(lhs_d.e) /\ rhs_d.e = Uninit)
  THEN Crashed ELSE
  Taint(Ok(IF is_constant(lhs_d.e) /\ is_constant(rhs_d.e)
           THEN Const(vsub(lhs_d.e.val, rhs_d.e.val))
           ELSE Bin("add", lhs_d.e, rhs_d.e)),
        lhs_d.ub \/ rhs_d.ub)

\* mul::diff
mul_diff(e, dv, ub) ==
  LET lhs_d == diff(e.lhs, dv, ub) IN
  IF lhs_d.st # "ok" THEN lhs_d ELSE
  LET rhs_d == diff(e.rhs, dv, ub) IN
  IF rhs_d.st # "ok" THEN Taint(rhs_d, lhs_d.ub) ELSE
  Return(add_create(mul_create(e.lhs, rhs_d.e), mul_create(lhs_d.e, e.rhs)),
         lhs_d.ub \/ rhs_d.ub)

\* div::diff.  lhs_d is computed and never used.
div_diff(e, dv, ub) ==
  LET lhs_d == diff(e.lhs, dv, ub) IN
  IF lhs_d.st # "ok" THEN lhs_d ELSE
  LET rhs_d == diff(e.rhs, dv, ub) IN
  IF rhs_d.st # "ok" THEN Taint(rhs_d, lhs_d.ub) ELSE
  Taint(div_create(sub_create(mul_create(e.lhs, rhs_d.e),
                              mul_create(rhs_d.e, e.lhs)),
                   pow_create(e.rhs, Const(Two))),
        lhs_d.ub \/ rhs_d.ub)

\* ln::diff that divides by the derivative of the argument
ln_diff_by_derivative(e, dv, ub) ==
  LET value_d == diff(e.value, dv, ub) IN
  IF value_d.st # "ok" THEN value_d ELSE
  LET q == div_create(Const(One), value_d.e) IN
  IF q.st # "ok" THEN Taint(q, value_d.ub) ELSE
  Return(mul_create(q.e, e.value), value_d.ub)

\* ln::diff
ln_diff(e, dv, ub) ==
  LET value_d == diff(e.value, dv, ub) IN
  IF value_d.st # "ok" THEN value_d ELSE
  LET q == div_create(Const(One), e.value) IN
  IF q.st # "ok" THEN Taint(q, value_d.ub) ELSE
  Return(mul_create(q.e, value_d.e), value_d.ub)

\* pow::diff whose power rule keeps the exponent
pow_diff_keeps_exponent(e, dv, ub) ==
  IF ~is_constant(e.lhs) /\ is_constant(e.rhs) THEN
    LET lhs_d == diff(e.lhs, dv, ub) IN
    IF lhs_d.st # "ok" THEN lhs_d ELSE
    Return(mul_create(mul_create(e.rhs, pow_create(e.lhs, e.rhs)), lhs_d.e),
           lhs_d.ub)
  ELSE IF (is_constant(e.lhs) /\ ~is_constant(e.rhs)) \/ ub.mode = "elide" THEN
    LET off == ~(is_constant(e.lhs) /\ ~is_constant(e.rhs))
        rhs_d == diff(e.rhs, dv, ub)
    IN
    IF rhs_d.st # "ok" THEN Taint(rhs_d, off) ELSE
    LET l == ln_create(e.lhs) IN
    IF l.st # "ok" THEN Taint(l, rhs_d.ub \/ off) ELSE
    Return(mul_create(mul_create(pow_create(e.lhs, e.rhs), l.e), rhs_d.e),
           rhs_d.ub \/ off)
  ELSE FlowOff(ub)

\* pow::diff: no return statement when base and exponent are both constant
\* or both non-constant
pow_diff(e, dv, ub) ==
  IF ~is_constant(e.lhs) /\ is_constant(e.rhs) THEN
    LET lhs_d == diff(e.lhs, dv, ub) IN
    IF lhs_d.st # "ok" THEN lhs_d ELSE
    LET new_power == Const(vsub(e.rhs.val, One)) IN
    Return(mul_create(mul_create(e.rhs, pow_create(e.lhs, new_power)),
                      lhs_d.e),
           lhs_d.ub)
  ELSE IF (is_constant(e.lhs) /\ ~is_constant(e.rhs)) \/ ub.mode = "elide" THEN
    LET off == ~(is_constant(e.lhs) /\ ~is_constant(e.rhs))
        rhs_d == diff(e.rhs, dv, ub)
    IN
    IF rhs_d.st # "ok" THEN Taint(rhs_d, off) ELSE
    LET l == ln_create(e.lhs) IN
    IF l.st # "ok" THEN Taint(l, rhs_d.ub \/ off) ELSE
    Return(mul_create(mul_create(pow_create(e.lhs, e.rhs), l.e), rhs_d.e),
           rhs_d.ub \/ off)
  ELSE FlowOff(ub)

\* base_expr::diff, dispatched on the class of the node
diff(e, dv, ub) ==
  CASE e.k = "constant" -> constant_diff(e, dv, ub)
    [] e.k = "variable" -> variable_diff(e, dv, ub)
    [] e.k = "add" -> add_diff(e, dv, ub)
    [] e.k = "sub" -> sub_diff(e, dv, ub)
    [] e.k = "mul" -> mul_diff(e, dv, ub)
    [] e.k = "pow" -> pow_diff(e, dv, ub)
    [] e.k = "div" -> div_diff(e, dv, ub)
    [] e.k = "ln" -> ln_diff(e, dv, ub)

-----------------------------------------------------------------------------
(* display: operator<< of a double with the stream's default format       *)
(* (six significant digits, trailing zeros dropped, scientific notation   *)
(* outside 1e-5 .. 1e6) and the parenthesised form of the composites.     *)

DigitChars == <<"0", "1", "2", "3", "4", "5", "6", "7", "8", "9">>
Digit(i) == DigitChars[i + 1]

RECURSIVE NatStr(_)
NatStr(i) == IF i < 10 THEN Digit(i) ELSE NatStr(i \div 10) \o Digit(i % 10)

RECURSIVE Pow10(_)
Pow10(i) == IF i = 0 THEN 1 ELSE 10 * Pow10(i - 1)

RECURSIVE NumDigits(_)
NumDigits(i) == IF i < 10 THEN 1 ELSE 1 + NumDigits(i \div 10)

\* the w low digits of f, zero-padded
RECURSIVE Pad(_, _)
Pad(f, w) == IF w = 0 THEN "" ELSE Pad(f \div 10, w - 1) \o Digit(f % 10)

\* the same without trailing zeros
RECURSIVE StripFrac(_, _)
StripFrac(f, w) ==
  IF w = 0 \/ f = 0 THEN ""
  ELSE IF f % 10 = 0 THEN StripFrac(f \div 10, w - 1)
  ELSE Pad(f, w)

Point(frac) == IF frac = "" THEN "" ELSE "." \o frac

\* six significant decimal digits r (100000 .. 999999) with the decimal
\* exponent x of the first, in the default float format
FormatG(r, x) ==
  IF x < -4 \/ x >= 6
  THEN Digit(r \div Pow10(5)) \o Point(StripFrac(r % Pow10(5), 5)) \o "e"
       \o (IF x < 0 THEN "-" ELSE "+") \o Pad(Abs(x), 2)
  ELSE IF x >= 0
  THEN NatStr(r \div Pow10(5 - x)) \o Point(StripFrac(r % Pow10(5 - x), 5 - x))
  ELSE "0." \o Pad(0, -x - 1) \o StripFrac(r, 6)

\* the fraction f = fh / 2^26 + fl / 2^52 times 10: the digit d that moves
\* before the point and the fraction that stays behind it
Times10(f) ==
  LET l == f.fl * 10
      h == f.fh * 10 + (l \div Limb)
  IN [d |-> h \div Limb, fh |-> h % Limb, fl |-> l % Limb]

\* the next cnt decimal digits of the fraction f appended to the number acc,
\* and the fraction left after them
RECURSIVE FracDigits(_, _, _)
FracDigits(f, cnt, acc) ==
  IF cnt = 0 THEN [num |-> acc, fh |-> f.fh, fl |-> f.fl]
  ELSE LET t == Times10(f) IN FracDigits(t, cnt - 1, acc * 10 + t.d)

\* the zeros between the point and the first other digit of the fraction f > 0
RECURSIVE LeadZeros(_)
LeadZeros(f) ==
  LET t == Times10(f) IN IF t.d # 0 THEN 0 ELSE 1 + LeadZeros(t)

\* the fraction f without its first z decimal digits
RECURSIVE SkipDigits(_, _)
SkipDigits(f, z) == IF z = 0 THEN f ELSE SkipDigits(Times10(f), z - 1)

\* the fraction f against one half: 1 above, 0 equal, -1 below
HalfCmp(f) ==
  IF f.fh > HalfLimb \/ (f.fh = HalfLimb /\ f.fl > 0) THEN 1
  ELSE IF f.fh = HalfLimb /\ f.fl = 0 THEN 0
  ELSE -1

\* The magnitude of v # 0 cut after six significant decimal digits: the
\* digits r, the decimal exponent x of the first, and cmp, the part cut off
\* against half a unit of the last digit.
Sig6(v) ==
  LET nd == NumDigits(v.ip) IN
  IF v.ip > 0 /\ nd > 6 THEN
    LET p == Pow10(nd - 6)
        rem == v.ip % p
        more == v.fh > 0 \/ v.fl > 0
    IN [r |-> v.ip \div p, x |-> nd - 1,
        cmp |-> IF 2 * rem > p \/ (2 * rem = p /\ more) THEN 1
                ELSE IF 2 * rem = p THEN 0 ELSE -1]
  ELSE IF v.ip > 0 THEN
    LET g == FracDigits(v, 6 - nd, v.ip)
    IN [r |-> g.num, x |-> nd - 1, cmp |-> HalfCmp(g)]
  ELSE
    LET z == LeadZeros(v)
        g == FracDigits(SkipDigits(v, z), 6, 0)
    IN [r |-> g.num, x |-> -(z + 1), cmp |-> HalfCmp(g)]

\* os << val: the exact value rounded to six significant digits, to the
\* nearest and on a tie to the even digit
DisplayDouble(v) ==
  IF v = Zero THEN "0" ELSE
  LET g == Sig6(v)
      r0 == IF g.cmp = 1 \/ (g.cmp = 0 /\ g.r % 2 = 1) THEN g.r + 1 ELSE g.r
      up == r0 = Pow10(6)
  IN (IF v.s < 0 THEN "-" ELSE "") \o
     FormatG(IF up THEN Pow10(5) ELSE r0, IF up THEN g.x + 1 ELSE g.x)
\* display of every class
RECURSIVE display(_)
display(e) ==
  CASE e.k = "constant" -> DisplayDouble(e.val)
    [] e.k = "variable" -> e.name
    [] e.k = "add" -> "(" \o display(e.lhs) \o " + " \o display(e.rhs) \o ")"
    [] e.k = "sub" -> "(" \o display(e.lhs) \o " - " \o display(e.rhs) \o ")"
    [] e.k = "mul" -> "(" \o display(e.lhs) \o " * " \o display(e.rhs) \o ")"
    [] e.k = "pow" -> "(" \o display(e.lhs) \o " ^ " \o display(e.rhs) \o ")"
    [] e.k = "div" -> "(" \o display(e.lhs) \o " / " \o display(e.rhs) \o ")"
    [] e.k = "ln" -> " ln(" \o display(e.value) \o ")"

-----------------------------------------------------------------------------
(* The caller.  It holds the trees it has built on a stack, makes leaves  *)
(* with the constructors of constant and variable, combines the top trees *)
(* with a create factory, and differentiates the top tree.  last records  *)
(* the latest call: its operands, its outcome and what it printed.        *)

\* the doubles the caller makes constants of
Doubles == {Zero, One, Two, ENear, EFar}

\* the names the caller makes variables of
Names == {"x", "y"}

Leaves == {Const(v) : v \in Doubles} \cup {Var(nm) : nm \in Names}

\* What a function that ends without a return statement may do in the
\* differentiation of the tree t.  The object its caller finds in the
\* "return" case is a constant 0 or 1 made earlier, a node of t, or an
\* object of no determined class.
UBValues(t) == {Const(Zero), Const(One), Unspecified} \cup Subterms(t)

Crash == [mode |-> "crash", e |-> NoExpr]

UBOutcomes(t) ==
  {Crash, [mode |-> "elide", e |-> NoExpr], [mode |-> "uninit", e |-> NoExpr],
   [mode |-> "wild", e |-> NoExpr]}
    \cup {[mode |-> "return", e |-> g] : g \in UBValues(t)}

\* the outcomes to tell apart in t->diff(dv): one is enough when the call
\* reaches no missing return
Oracles(t, dv) == IF diff(t, dv, Crash).ub THEN UBOutcomes(t) ELSE {Crash}

\* What the caller has after a call.  In the "wild" case a call that went
\* through a missing return and came back returns an expression that the
\* program text does not determine.
Settle(o, ub) ==
  IF ub.mode = "wild" /\ o.ub /\ o.st = "ok"
  THEN [o EXCEPT !.e = Unspecified]
  ELSE o

\* the trees the caller held are lost: the process ended, or its memory
\* was overwritten
Lost(o, ub) == o.st = "crash" \/ (ub.mode = "wild" /\ o.ub)

Call(op, a, b, dv, o, out) ==
  [op |-> op, a |-> a, b |-> b, dv |-> dv,
   st |-> o.st, res |-> o.e, ub |-> o.ub, out |-> out]

Top == stack[Len(stack)]
Second == stack[Len(stack) - 1]
Pop1 == SubSeq(stack, 1, Len(stack) - 1)
Pop2 == SubSeq(stack, 1, Len(stack) - 2)

RECURSIVE StackNodes(_)
StackNodes(s) == IF s = <<>> THEN 0 ELSE Size(Head(s)) + StackNodes(Tail(s))

\* the constants of e are doubles the caller works with
InDoubles(e) ==
  \A t \in Subterms(e) : is_constant(t) => t.val \in Doubles

\* A tree is kept for further calls when the call returned one through
\* defined behaviour; a derivative moreover only while it is small and its
\* folded constants are doubles the caller works with (it is recorded in
\* last either way).
Keep(rest, o) ==
  IF o.st = "ok" /\ ~o.ub /\ Size(o.e) <= MaxDiffNodes /\ InDoubles(o.e)
  THEN Append(rest, o.e)
  ELSE rest

\* a leaf is made while the trees held, the leaf and the nodes that will
\* join them still fit in one tree of MaxNodes nodes
CanPush ==
  /\ Len(stack) < MaxStack
  /\ StackNodes(stack) + 1 + Len(stack) <= MaxNodes
CanCombine == Len(stack) >= 2 /\ Size(Second) + Size(Top) + 1 <= MaxNodes

Init ==
  /\ stack = <<>>
  /\ last = Call("start", NoExpr, NoExpr, "", Throw("none"), <<>>)

\* new constant(v)
NewConstant ==
  \E v \in Doubles :
    /\ CanPush
    /\ stack' = Append(stack, Const(v))
    /\ last' = Call("constant", NoExpr, NoExpr, "", Ok(Const(v)), <<>>)

\* new variable(name)
NewVariable ==
  \E nm \in Names :
    /\ CanPush
    /\ stack' = Append(stack, Var(nm))
    /\ last' = Call("variable", NoExpr, NoExpr, "", Ok(Var(nm)), <<>>)

AddCreate ==
  /\ CanCombine
  /\ LET o == Ok(add_create(Second, Top)) IN
       /\ stack' = Keep(Pop2, o)
       /\ last' = Call("add_create", Second, Top, "", o, <<>>)

SubCreate ==
  /\ CanCombine
  /\ LET o == Ok(sub_create(Second, Top)) IN
       /\ stack' = Keep(Pop2, o)
       /\ last' = Call("sub_create", Second, Top, "", o, <<>>)

MulCreate ==
  /\ CanCombine
  /\ LET o == Ok(mul_create(Second, Top)) IN
       /\ stack' = Keep(Pop2, o)
       /\ last' = Call("mul_create", Second, Top, "", o, <<>>)

PowCreate ==
  /\ CanCombine
  /\ LET o == Ok(pow_create(Second, Top)) IN
       /\ stack' = Keep(Pop2, o)
       /\ last' = Call("pow_create", Second, Top, "", o, <<>>)

DivCreate ==
  /\ CanCombine
  /\ LET o == div_create(Second, Top) IN
       /\ stack' = Keep(Pop2, o)
       /\ last' = Call("div_create", Second, Top, "", o, <<>>)

LnCreate ==
  /\ Len(stack) >= 1
  /\ Size(Top) + 1 <= MaxNodes
  /\ LET o == ln_create(Top) IN
       /\ stack' = Keep(Pop1, o)
       /\ last' = Call("ln_create", Top, NoExpr, "", o, <<>>)

\* top->diff(dv) for a variable dv
Diff ==
  \E nm \in Names :
    /\ Len(stack) >= 1
    /\ Size(Top) <= MaxDiffNodes
    /\ \E ub \in Oracles(Top, Var(nm)) :
         LET o == Settle(diff(Top, Var(nm), ub), ub) IN
         /\ stack' = IF Lost(o, ub) THEN <<>> ELSE Keep(Pop1, o)
         /\ last' = Call("diff", Top, NoExpr, nm, o, <<>>)

\* main(): the three expressions, their derivatives, the three lines
MainLine(f, fd) == display(f) \o "\t:\t" \o display(fd)

Main ==
  /\ last.op = "start"
  /\ LET x == Var("x")
         c1 == Const(FromInt(69))
         c2 == Const(FromInt(420))
         c3 == Const(FromInt(5))
         c4 == Const(E)
         pow1 == add_create(mul_create(c3, pow_create(x, c1)),
                            mul_create(c3, pow_create(x, c2)))
         pow2 == pow_create(c3, mul_create(c1, x))
         pow3 == pow_create(c4, mul_create(c1, x))
         pow1d == diff(pow1, x, Crash)
         pow2d == diff(pow2, x, Crash)
         pow3d == diff(pow3, x, Crash)
     IN /\ stack' = stack
        /\ last' = Call("main", pow1, pow2, "x", pow1d,
                        <<MainLine(pow1, pow1d.e), MainLine(pow2, pow2d.e),
                          MainLine(pow3, pow3d.e)>>)

Next ==
  \/ NewConstant
  \/ NewVariable
  \/ AddCreate
  \/ SubCreate
  \/ MulCreate
  \/ PowCreate
  \/ DivCreate
  \/ LnCreate
  \/ Diff
  \/ Main

Spec == Init /\ [][Next]_vars

-----------------------------------------------------------------------------
(* Vocabulary of the properties *)

\* the call recorded in last is a diff that returned through defined behaviour
DiffReturned == last.op = "diff" /\ last.st = "ok" /\ ~last.ub

\* a rule of the create factories' table applies to the node t
RuleFires(t) ==
  CASE t.k = "add" -> IsC(t.lhs, Zero) \/ IsC(t.rhs, Zero)
    [] t.k = "sub" -> IsC(t.rhs, Zero)
    [] t.k = "mul" -> \/ IsC(t.lhs, Zero) \/ IsC(t.lhs, One)
                      \/ IsC(t.rhs, Zero) \/ IsC(t.rhs, One)
    [] t.k = "pow" -> ~is_constant(t.lhs) /\ (IsC(t.rhs, Zero) \/ IsC(t.rhs, One))
    [] t.k = "div" -> IsC(t.rhs, Zero) \/ IsC(t.rhs, One) \/ IsC(t.lhs, Zero)
    [] t.k = "ln" -> is_constant(t.value)
                     /\ (t.value.val = Zero \/ is_const_e(t.value.val))
    [] OTHER -> FALSE

\* no rule applies anywhere in e: e is a tree the factories can return
Simplified(e) == \A t \in Subterms(e) : ~RuleFires(t)

VarNames(e) == {t.name : t \in {u \in Subterms(e) : u.k = "variable"}}

\* every tree the caller holds or the latest call took or returned
Trees ==
  {stack[i] : i \in 1..Len(stack)} \cup ({last.a, last.b, last.res} \ {NoExpr})

\* C1 as claimed: the derivative of a tree built by the factories over the
\* one variable it is differentiated by is simplified: no rule of the table
\* applies to any of its nodes.
C1_DerivativeSimplified ==
  (DiffReturned /\ Simplified(last.a) /\ VarNames(last.a) \subseteq {last.dv})
    => Simplified(last.res)

\* C2 as claimed: the derivative of 5*x^69 + 5*x^420 renders with the
\* exponent as the outer factor of each term.
C2_RendersExponentOutside ==
  last.op = "main" =>
    display(last.res) = "((69 * (5 * (x ^ 68))) + (420 * (5 * (x ^ 419))))"

\* C2 as amended: the derivative of 5*x^69 + 5*x^420 renders with the 5 as
\* the outer factor of each term and the exponent multiplying the power.
C2_RendersCoefficientOutside ==
  last.op = "main" =>
    display(last.res) = "((5 * (69 * (x ^ 68))) + (5 * (420 * (x ^ 419))))"

C2_Witness ==
  /\ last.op = "main"
  /\ display(last.a) = "((5 * (x ^ 69)) + (5 * (x ^ 420)))"
  /\ last.st = "ok"

\* C3 as claimed: diff of a Power whose base and exponent are both constant
\* or both non-constant fails with UnsupportedDifferentiation.
C3_PowerUnsupported ==
  (/\ last.op = "diff"
   /\ last.a.k = "pow"
   /\ is_constant(last.a.lhs) = is_constant(last.a.rhs))
    => last.st = "UnsupportedDifferentiation" /\ last.res = NoExpr

\* C4: Quotient.create with divisor Constant(0) throws DivisionByZero and
\* returns no node, whatever the dividend; no tree ever held has a Quotient
\* node whose right-hand side is Constant(0).
C4_DivisionByZero ==
  /\ (last.op = "div_create" /\ IsC(last.b, Zero))
       => last.st = DivisionByZero /\ last.res = NoExpr
  /\ \A e \in Trees : \A t \in Subterms(e) :
       t.k = "div" => ~IsC(t.rhs, Zero)

C4_Witness ==
  /\ last.op = "div_create"
  /\ IsC(last.b, Zero)
  /\ IsC(last.a, Zero)
  /\ last.st = DivisionByZero

HasOtherVariable(e, nm) == VarNames(e) \ {nm} # {}

C5_VariableCase ==
  (last.op = "diff" /\ last.a.k = "variable") =>
    IF last.a.name = last.dv
    THEN last.st = "ok" /\ ~last.ub /\ last.res = Const(One)
    ELSE last.ub

\* C5 as claimed: diff of Variable(n) by Variable(m) is Constant(1) when
\* n = m and has no defined result otherwise, and diff of every tree that
\* contains a variable other than the one differentiated by is undefined.
C5_OtherVariableUndefined ==
  /\ C5_VariableCase
  /\ (last.op = "diff" /\ HasOtherVariable(last.a, last.dv)) => last.ub

\* C5 as amended: diff of Variable(n) by Variable(m) is Constant(1) when
\* n = m and has no defined result otherwise; diff of a tree that contains
\* a variable other than the one differentiated by either is undefined or
\* throws LogOfZero before it reaches that variable: it never returns a
\* defined expression.
C5_OtherVariableNoResult ==
  /\ C5_VariableCase
  /\ (last.op = "diff" /\ HasOtherVariable(last.a, last.dv))
       => \/ last.ub
          \/ last.st = LogOfZero /\ last.res = NoExpr

C5_Witness ==
  /\ last.op = "diff"
  /\ HasOtherVariable(last.a, last.dv)
  /\ last.st = LogOfZero
  /\ ~last.ub

\* C6: Product.create returns Constant(0) when either operand is
\* Constant(0), else the right operand when the left is Constant(1), else
\* the left operand when the right is Constant(1), else a Product node of
\* exactly the two operands.
C6_ProductRules ==
  last.op = "mul_create" =>
    /\ last.st = "ok"
    /\ last.res =
         IF last.a = Const(Zero) \/ last.b = Const(Zero) THEN Const(Zero)
         ELSE IF last.a = Const(One) THEN last.b
         ELSE IF last.b = Const(One) THEN last.a
         ELSE [k |-> "mul", lhs |-> last.a, rhs |-> last.b]

C6_Witness ==
  /\ last.op = "mul_create"
  /\ last.a = Const(One)
  /\ last.b = Const(Zero)
  /\ last.res = Const(Zero)

\* C7: diff of a Power with constant base b and non-constant exponent u is
\* Product.create(Product.create(Power.create(b, u), NaturalLog.create(b)),
\* u'); for 5^(69*x) the derivative has the factor ln(5), and when b is e
\* within 1e-10 the logarithm factor is Constant(1), so the rule adds no
\* NaturalLog node.
C7_ExponentialRule ==
  /\ (/\ DiffReturned
      /\ last.a.k = "pow"
      /\ is_constant(last.a.lhs)
      /\ ~is_constant(last.a.rhs))
       => LET b == last.a.lhs
              u == last.a.rhs
              ud == diff(u, Var(last.dv), Crash).e
              near == is_const_e(b.val)
              lnb == IF near THEN Const(One) ELSE [k |-> "ln", value |-> b]
          IN /\ last.res = mul_create(mul_create(Bin("pow", b, u), lnb), ud)
             /\ near => \A t \in Subterms(last.res) :
                          t.k = "ln" => t \in Subterms(u) \cup Subterms(ud)
  /\ last.op = "main" =>
       /\ last.out[2] = "(5 ^ (69 * x))\t:\t(((5 ^ (69 * x)) *  ln(5)) * 69)"
       /\ last.out[3] = "(2.71828 ^ (69 * x))\t:\t((2.71828 ^ (69 * x)) * 69)"

C7_Witness ==
  /\ DiffReturned
  /\ last.a.k = "pow"
  /\ IsC(last.a.lhs, ENear)
  /\ ~is_constant(last.a.rhs)
  /\ last.res.k = "mul"

\* C8: diff of Difference(a, b) is the one Constant(a' - b') when both
\* derivatives are constants, and otherwise a Sum node, not a Difference
\* node, of a' and b' in that order.
C8_DifferenceRule ==
  (DiffReturned /\ last.a.k = "sub") =>
    LET ad == diff(last.a.lhs, Var(last.dv), Crash).e
        bd == diff(last.a.rhs, Var(last.dv), Crash).e
    IN IF ad.k = "constant" /\ bd.k = "constant"
       THEN last.res = Const(vsub(ad.val, bd.val))
       ELSE last.res = [k |-> "add", lhs |-> ad, rhs |-> bd]

C8_Witness ==
  /\ DiffReturned
  /\ last.a.k = "sub"
  /\ last.res.k = "add"
  /\ IsC(last.res.rhs, Zero)

\* C9: Power.create accepts base Constant(0) with a non-constant exponent,
\* and diff of such a Power whose exponent has a defined derivative throws
\* LogOfZero instead of returning an expression.
C9_LogOfZero ==
  /\ (last.op = "pow_create" /\ IsC(last.a, Zero) /\ ~is_constant(last.b))
       => last.st = "ok" /\ last.res = [k |-> "pow", lhs |-> last.a, rhs |-> last.b]
  /\ (/\ last.op = "diff"
      /\ last.a.k = "pow"
      /\ IsC(last.a.lhs, Zero)
      /\ ~is_constant(last.a.rhs)
      /\ LET ud == diff(last.a.rhs, Var(last.dv), Crash)
         IN ud.st = "ok" /\ ~ud.ub)
       => last.st = LogOfZero /\ last.res = NoExpr

C9_Witness ==
  /\ last.op = "diff"
  /\ last.a.k = "pow"
  /\ IsC(last.a.lhs, Zero)
  /\ last.a.rhs.k = "mul"
  /\ last.st = LogOfZero

\* C10: diff never throws DivisionByZero, also on derivatives
\* differentiated again: the divisor Quotient.diff passes is a Power node
\* and the divisor NaturalLog.diff passes is an argument other than
\* Constant(0).
C10_NoDivisionByZero ==
  last.op = "diff" =>
    /\ last.st # DivisionByZero
    /\ \A t \in Subterms(last.a) :
         /\ t.k = "div" => pow_create(t.rhs, Const(Two)).k = "pow"
         /\ t.k = "ln" => ~IsC(t.value, Zero)

\* the second derivative of a NaturalLog, a Quotient that only diff builds,
\* differentiated once more
C10_Witness ==
  /\ DiffReturned
  /\ last.a.k = "div"
  /\ last.a.lhs.k = "sub"
  /\ last.a.rhs.k = "pow"
  /\ Size(last.a) > MaxNodes

====
